---- MODULE Spec2Model ----
(***************************************************************************)
(* The offline basemap cache manager (the useOffline hook) of SORD Field   *)
(* Kit, with the persistent store it reads and writes and the settings     *)
(* panel controls that drive it.                                           *)
(*                                                                         *)
(* The hook runs on a single-threaded event loop.  Every action below is   *)
(* one run-to-completion piece of the source: an event handler, or the     *)
(* continuation of an async function from one await to the next.  The      *)
(* rejection that abort() delivers to a pending fetch/read is a microtask, *)
(* so it runs before the next event is taken (Quiescent).  The enable      *)
(* effect is flushed with the render that changed one of its dependencies  *)
(* (Commit), before the next event is taken.                               *)
(***************************************************************************)
EXTENDS Integers, Sequences, FiniteSets, TLC

\* ---------------------------------------------------------------- bounds
MaxAttempts == 2
MaxPendingClears == 1
MaxAcctChunks == 3
MaxInstalls == 2

\* ------------------------------------------------------ program constants
CHUNK_SIZE == 65536
LOCAL_PM_TILES_PATH == "/tiles/basemap.pmtiles"
REMOTE_PM_TILES_URL == "https://pmtiles.io/protomaps(vector)ODbL_firenze.pmtiles"

\* null / undefined of the source
Null == "null"
Undefined == -1

\* ------------------------------------------------------- input alphabets
Urls == {LOCAL_PM_TILES_PATH, REMOTE_PM_TILES_URL}
NoHeader == -1
HttpStatuses == {200, 404}
\* transport behaviour under Spec: a one-byte archive with its length declared
ChunkLens == {1}
ContentLengths == {1}
\* transport behaviour under SpecAcct: chunks below, at and above the
\* accounting unit; the length undeclared, declared as 0, or declared
AcctChunkLens == {1, CHUNK_SIZE, CHUNK_SIZE + 1}
AcctContentLengths == {NoHeader, 0, 2, CHUNK_SIZE + 2, 2 * CHUNK_SIZE}

\* ------------------------------------------------------------ arithmetic
\* Math.ceil(a / b) for non-negative a and positive b
Ceil(a, b) == (a + b - 1) \div b

Max(a, b) == IF a >= b THEN a ELSE b

\* ------------------------------------------------------------------ blobs
NoBlob == [size |-> Undefined, parts |-> <<>>]

RECURSIVE SumLen(_)
SumLen(chunks) ==
  IF chunks = <<>> THEN 0 ELSE Head(chunks).len + SumLen(Tail(chunks))

\* Bytes are identified by where they come from: a run is len bytes of the
\* archive at url starting at offset off, and a buffer is a sequence of runs
\* each written at position at.  Chunk boundaries are not part of the bytes:
\* a run that continues the previous one, in the archive and in the buffer,
\* is the same bytes as the two joined.
Joined(buf, run) ==
  LET last == buf[Len(buf)]
  IN IF buf # <<>> /\ last.url = run.url
        /\ last.off + last.len = run.off /\ last.at + last.len = run.at
     THEN [buf EXCEPT ![Len(buf)].len = last.len + run.len]
     ELSE Append(buf, run)

\* (variant: the write offset is never advanced)
RECURSIVE BufferSetNoAdvance(_, _, _)
BufferSetNoAdvance(buf, chunks, offset) ==
  IF chunks = <<>> THEN buf
  ELSE LET chunk == Head(chunks)
       IN BufferSetNoAdvance(
            IF chunk.len = 0 THEN buf
            ELSE Joined(buf, [at |-> offset, url |-> chunk.url,
                              off |-> chunk.off, len |-> chunk.len]),
            Tail(chunks), offset)

\* buffer.set(chunk, offset); offset += chunk.length  -- for every chunk
RECURSIVE BufferSet(_, _, _)
BufferSet(buf, chunks, offset) ==
  IF chunks = <<>> THEN buf
  ELSE LET chunk == Head(chunks)
       IN BufferSet(
            IF chunk.len = 0 THEN buf
            ELSE Joined(buf, [at |-> offset, url |-> chunk.url,
                              off |-> chunk.off, len |-> chunk.len]),
            Tail(chunks), offset + chunk.len)

\* new Uint8Array(receivedBytes) filled chunk by chunk, wrapped as a Blob
MakeBlob(chunks, receivedBytes) ==
  [size |-> receivedBytes, parts |-> BufferSet(<<>>, chunks, 0)]

\* the first size bytes of the archive at url, as a blob
Content(url, size) ==
  [size |-> size,
   parts |-> IF size = 0 THEN <<>>
             ELSE <<[at |-> 0, url |-> url, off |-> 0, len |-> size]>>]

\* a blob left in the store by an earlier session
PriorBlob == Content(LOCAL_PM_TILES_PATH, 1)

\* ------------------------------------------------------ persistent store
NoValue == [kind |-> "none", blob |-> NoBlob, sourceUrl |-> Null]

PMTilesCacheRecord(blob, sourceUrl) ==
  [kind |-> "record", blob |-> blob, sourceUrl |-> sourceUrl]

BareBlob(blob) == [kind |-> "bare", blob |-> blob, sourceUrl |-> Null]

Junk == [kind |-> "junk", blob |-> NoBlob, sourceUrl |-> Null]

\* what set(PM_TILES_CACHE_KEY, record) leaves under the key
savePMTilesBlob(blob, sourceUrl) == PMTilesCacheRecord(blob, sourceUrl)

\* (variant: only records are understood)
readPMTilesBlobRecordsOnly(value) ==
  IF value.kind = "record" /\ value.blob # NoBlob
  THEN PMTilesCacheRecord(value.blob, value.sourceUrl)
  ELSE NoValue

\* the record readPMTilesBlob returns for the value under the key
\* (NoValue stands for null)
readPMTilesBlob(value) ==
  IF value.kind = "none" THEN NoValue
  ELSE IF value.kind = "bare" THEN PMTilesCacheRecord(value.blob, Null)
  ELSE IF value.kind = "record" /\ value.blob # NoBlob
       THEN PMTilesCacheRecord(value.blob, value.sourceUrl)
  ELSE NoValue

clearPMTilesBlob == NoValue

InitStores ==
  {NoValue, PMTilesCacheRecord(PriorBlob, LOCAL_PM_TILES_PATH),
   BareBlob(PriorBlob), Junk}

\* ----------------------------------------------------------------- status
NoError == [text |-> "", code |-> 0]
NoSourceMsg == [text |-> "No PMTiles source available", code |-> 0]
\* (variant: the message leaves the status code out)
HttpMsgNoCode(code) == [text |-> "Unable to download tiles", code |-> 0]

HttpMsg(code) == [text |-> "Unable to download tiles", code |-> code]
\* (error as Error).message of an error thrown by the runtime
RuntimeMsg == [text |-> "Failed to fetch", code |-> 0]

IdleStatus ==
  [phase |-> "idle", storedChunks |-> 0, totalChunks |-> 0,
   bytesStored |-> 0, totalBytes |-> Undefined, error |-> NoError]

DownloadingStatus == [IdleStatus EXCEPT !.phase = "downloading"]

\* ---------------------------------------------------------------- attempts
\* the locals of one startCaching invocation
NoAttempt ==
  [pc |-> "none", url |-> Null, contentLength |-> NoHeader,
   chunks |-> <<>>, receivedBytes |-> 0, storedChunks |-> 0]

NoTask == [att |-> 0, by |-> "none"]

VARIABLES
  enabled,          \* useState: the offline toggle
  pmtilesUrl,       \* the hook's argument (App.pmtilesFetchUrl)
  offlineBlob,      \* useState
  cachedSourceUrl,  \* useState
  hasCache,         \* useState
  status,           \* useState<OfflineStatus>
  controllerRef,    \* useRef: 0 = null, else the attempt owning the controller
  att,              \* the startCaching invocations that have not returned
  micro,            \* the AbortError rejection waiting in the microtask queue
  store,            \* value under PM_TILES_CACHE_KEY
  storeQueue        \* store requests issued and not yet completed (in order)

\* the component that owns the hook, and the map view next to it
VARIABLES
  mounted,          \* the component owning the hook has not been torn down
  mapRef,           \* useRef: 0 = null, else the live map instance
  mapLoaded,        \* how far the live map is: constructed, style, load
  mapSource,        \* the vector source of the live map (Null = none)
  mapLayers,        \* the ids of the basemap style layers on the live map
  layerIdsRef,      \* useRef: the layer ids the view tracks
  installs,         \* the installBasemap runs that have not returned
  waypoints,        \* the waypoint collection
  markersRef,       \* useRef: the markers on the live map, by waypoint id
  bootstrap,        \* the source probe of the bootstrap that is still wanted
  protocol,         \* the pmtiles protocol: registered?, archives by key
  visibleLayers     \* the layer toggles, by role

hookVars ==
  <<enabled, pmtilesUrl, offlineBlob, cachedSourceUrl, hasCache, status,
    controllerRef, att, micro, store, storeQueue>>

mapVars ==
  <<mapRef, mapLoaded, mapSource, mapLayers, layerIdsRef, installs,
    waypoints, markersRef, bootstrap, protocol, visibleLayers>>

vars == <<hookVars, mounted, mapVars>>

\* no map view has been mounted
NoMapView ==
  /\ mapRef = 0
  /\ mapLoaded = "none"
  /\ mapSource = [url |-> <<>>, instance |-> 0]
  /\ mapLayers = {}
  /\ layerIdsRef = {}
  /\ installs = <<>>
  /\ waypoints = <<>>
  /\ markersRef = {}
  /\ bootstrap = [pc |-> "none", src |-> Null]
  /\ protocol = [registered |-> FALSE, tiles |-> {}]
  /\ visibleLayers =
       [key \in {"land", "water", "roads", "buildings"} |-> TRUE]

Attempts == 1..MaxAttempts

Quiescent == micro = NoTask

\* an attempt whose request is live: fetching or reading, and not aborted
InFlight(i) == att[i].pc \in {"fetching", "reading"} /\ micro.att # i

InFlightSet == {i \in Attempts : InFlight(i)}

Init ==
  /\ enabled \in BOOLEAN
  /\ pmtilesUrl = Null
  /\ offlineBlob = NoBlob
  /\ cachedSourceUrl = Null
  /\ hasCache = FALSE
  /\ status = IdleStatus
  /\ controllerRef = 0
  /\ att = [i \in Attempts |-> NoAttempt]
  /\ micro = NoTask
  /\ store \in InitStores
  /\ storeQueue = <<[op |-> "get", att |-> 0, value |-> NoValue]>>
  /\ mounted = TRUE
  /\ NoMapView

\* ------------------------------------------------- the part effects touch
\* The state a handler leaves behind and the enable effect may then change.
Cur ==
  [status |-> status, controllerRef |-> controllerRef, att |-> att,
   micro |-> micro, cachedSourceUrl |-> cachedSourceUrl]

\* ------------------------------------------------------------ cancellation
\* controller.abort() on the controller of attempt c: a pending fetch or read
\* rejects with AbortError (delivered as a microtask); an attempt that is past
\* the stream (awaiting the store) is not affected.
Abort(m, c, by) ==
  IF c # 0 /\ m.att[c].pc \in {"fetching", "reading"}
  THEN [m EXCEPT !.micro = [att |-> c, by |-> by]]
  ELSE m

resetController(m, by) ==
  IF m.controllerRef # 0
  THEN [Abort(m, m.controllerRef, by) EXCEPT !.controllerRef = 0]
  ELSE m

\* The invocations that have not returned are kept in the order they were
\* started: when invocation i returns, its locals go out of scope and the
\* younger ones move up, and so does every reference to them.
Finished(a, i) ==
  [j \in Attempts |-> IF j < i THEN a[j]
                      ELSE IF j < MaxAttempts THEN a[j + 1] ELSE NoAttempt]

Moved(j, i) == IF j > i THEN j - 1 ELSE j

\* the store requests after invocation i returned
Requeued(q, i) == [k \in DOMAIN q |-> [q[k] EXCEPT !.att = Moved(@, i)]]

\* the record of the next invocation
FreeSlots(a) == {i \in Attempts : a[i].pc = "none"}
NewAttempt(a) == CHOOSE i \in FreeSlots(a) : \A j \in FreeSlots(a) : i <= j

\* ------------------------------------------------------------ startCaching
\* (variant: the progress of the previous attempt is kept)
startCachingKeepingProgress(url, m, by) ==
  IF url = Null
  THEN [m EXCEPT !.status.phase = "error", !.status.error = NoSourceMsg]
  ELSE LET a == Abort(m, m.controllerRef, by)
           i == NewAttempt(m.att)
       IN [a EXCEPT !.controllerRef = i,
                    !.att[i] = [NoAttempt EXCEPT !.pc = "fetching", !.url = url],
                    !.cachedSourceUrl = url,
                    !.status.phase = "downloading"]

\* startCaching up to its first await
startCaching(url, m, by) ==
  IF url = Null
  THEN [m EXCEPT !.status.phase = "error", !.status.error = NoSourceMsg]
  ELSE LET a == Abort(m, m.controllerRef, by)
           i == NewAttempt(m.att)
       IN [a EXCEPT !.controllerRef = i,
                    !.att[i] = [NoAttempt EXCEPT !.pc = "fetching", !.url = url],
                    !.cachedSourceUrl = url,
                    !.status = DownloadingStatus]

\* catch (error) with a genuine failure, then finally
CatchError(m, i, msg) ==
  [m EXCEPT !.status.phase = "error", !.status.error = msg,
            !.controllerRef = 0,
            !.att = Finished(m.att, i),
            !.micro.att = Moved(@, i)]

\* catch (error) with error.name = "AbortError", then finally
CatchAbort(m, i) ==
  [m EXCEPT !.status.phase = "paused",
            !.controllerRef = 0,
            !.att = Finished(m.att, i),
            !.micro = NoTask]

\* --------------------------------------------------------- the enable effect
\* (an abort issued here is tagged "disable" when the toggle was just switched
\* off, "rerun" when the effect reran for another dependency)
\* (variant: switching off always shows Ready)
EnableEffectAlwaysReady(en, url, hc, m) ==
  IF ~en
  THEN [resetController(m, IF enabled THEN "disable" ELSE "rerun") EXCEPT
          !.status.phase = "ready"]
  ELSE IF url # Null THEN startCaching(url, m, "start")
  ELSE m

EnableEffect(en, url, hc, m) ==
  IF ~en
  THEN [resetController(m, IF enabled THEN "disable" ELSE "rerun") EXCEPT
          !.status.phase = IF hc THEN "ready" ELSE "idle"]
  ELSE IF url # Null THEN startCaching(url, m, "start")
  ELSE m

\* the effect's dependency array
Deps(en, url, hc) == <<en, url, hc>>

\* The render after a handler: the effect runs when a dependency changed.
Rendered(en, url, hc, m) ==
  IF Deps(en, url, hc) # Deps(enabled, pmtilesUrl, hasCache)
  THEN EnableEffect(en, url, hc, m)
  ELSE m

\* a startCaching call needs a free invocation record (model bound)
CanRender(en, url, hc, m) ==
  (Deps(en, url, hc) # Deps(enabled, pmtilesUrl, hasCache) /\ en /\ url # Null)
    => FreeSlots(m.att) # {}

\* a state setter called after the owner was torn down changes nothing
Applied(new, old) == IF mounted THEN new ELSE old

\* The state after a handler or continuation of the hook: while the owner is
\* mounted its updates are rendered and the effect flushed; afterwards only
\* the refs and the locals of the running invocations change.
Commit(en, url, hc, m) ==
  /\ mounted => CanRender(en, url, hc, m)
  /\ enabled' = Applied(en, enabled)
  /\ pmtilesUrl' = Applied(url, pmtilesUrl)
  /\ hasCache' = Applied(hc, hasCache)
  /\ LET f == IF mounted THEN Rendered(en, url, hc, m) ELSE m
     IN /\ status' = Applied(f.status, status)
        /\ controllerRef' = f.controllerRef
        /\ att' = f.att
        /\ micro' = f.micro
        /\ cachedSourceUrl' = Applied(f.cachedSourceUrl, cachedSourceUrl)
  /\ UNCHANGED <<mounted, mapVars>>

\* ------------------------------------------------------- the download steps
Ok(code) == code >= 200 /\ code <= 299
HasBody(code) == code \notin {204, 205, 304}

\* Number(response.headers.get("content-length") ?? "0") || undefined
TotalBytes(header) ==
  IF header = NoHeader \/ header = 0 THEN Undefined ELSE header

EstimatedChunks(totalBytes) ==
  IF totalBytes # Undefined THEN Ceil(totalBytes, CHUNK_SIZE) ELSE 0

\* the AbortError rejection is delivered
AbortCatch ==
  /\ micro # NoTask
  /\ Commit(enabled, pmtilesUrl, hasCache, CatchAbort(Cur, micro.att))
  /\ storeQueue' = Requeued(storeQueue, micro.att)
  /\ UNCHANGED <<offlineBlob, store>>

\* await fetch(...) resolves; response.ok / response.body are checked
FetchResponse(i, code, header) ==
  /\ Quiescent
  /\ att[i].pc = "fetching"
  /\ Commit(enabled, pmtilesUrl, hasCache,
            IF ~Ok(code) \/ ~HasBody(code)
            THEN CatchError(Cur, i, HttpMsg(code))
            ELSE [Cur EXCEPT !.att[i].pc = "reading",
                             !.att[i].contentLength = header])
  /\ storeQueue' = IF ~Ok(code) \/ ~HasBody(code)
                   THEN Requeued(storeQueue, i)
                   ELSE storeQueue
  /\ UNCHANGED <<offlineBlob, store>>

FetchResolve(i) ==
  \E code \in HttpStatuses, header \in ContentLengths :
    FetchResponse(i, code, header)

FetchResolveAcct(i) ==
  \E code \in HttpStatuses, header \in AcctContentLengths :
    FetchResponse(i, code, header)

\* await fetch(...) rejects with a network error
FetchReject(i) ==
  /\ Quiescent
  /\ att[i].pc = "fetching"
  /\ Commit(enabled, pmtilesUrl, hasCache, CatchError(Cur, i, RuntimeMsg))
  /\ storeQueue' = Requeued(storeQueue, i)
  /\ UNCHANGED <<offlineBlob, store>>

\* storedChunks += Math.max(1, Math.ceil(value.length / CHUNK_SIZE))
ChunkUnits(len) == Max(1, Ceil(len, CHUNK_SIZE))

\* a || b on numbers
OrElse(a, b) == IF a # 0 THEN a ELSE b

\* the status set after a chunk
ProgressStatus(storedChunks, receivedBytes, totalBytes) ==
  [phase |-> "downloading",
   storedChunks |-> storedChunks,
   totalChunks |-> OrElse(EstimatedChunks(totalBytes), storedChunks),
   bytesStored |-> receivedBytes,
   totalBytes |-> totalBytes,
   error |-> NoError]

\* the loop body for one chunk
Received(a, len) ==
  [a EXCEPT !.chunks = Append(@, [url |-> a.url, off |-> a.receivedBytes,
                                  len |-> len]),
            !.receivedBytes = @ + len,
            !.storedChunks = @ + ChunkUnits(len)]

\* reader.read() resolves with a chunk
ReadChunkWith(i, lens) ==
  /\ Quiescent
  /\ att[i].pc = "reading"
  /\ \E len \in lens :
       LET a == Received(att[i], len)
       IN Commit(enabled, pmtilesUrl, hasCache,
                 [Cur EXCEPT !.att[i] = a,
                             !.status = ProgressStatus(
                                          a.storedChunks, a.receivedBytes,
                                          TotalBytes(a.contentLength))])
  /\ UNCHANGED <<offlineBlob, store, storeQueue>>

\* under Spec the body is no longer than the response declared
ReadChunk(i) ==
  ReadChunkWith(i, {len \in ChunkLens :
                      att[i].receivedBytes + len <= att[i].contentLength})

\* under SpecAcct it is any MaxAcctChunks chunks or fewer
ReadChunkAcct(i) ==
  /\ Len(att[i].chunks) < MaxAcctChunks
  /\ ReadChunkWith(i, AcctChunkLens)

\* reader.read() resolves with done: assemble the blob, issue the save
ReadDone(i) ==
  /\ Quiescent
  /\ att[i].pc = "reading"
  /\ Commit(enabled, pmtilesUrl, hasCache, [Cur EXCEPT !.att[i].pc = "saving"])
  /\ storeQueue' =
       Append(storeQueue,
              [op |-> "set", att |-> i,
               value |-> savePMTilesBlob(
                           MakeBlob(att[i].chunks, att[i].receivedBytes),
                           att[i].url)])
  /\ UNCHANGED <<offlineBlob, store>>

\* reader.read() rejects with a stream error
ReadError(i) ==
  /\ Quiescent
  /\ att[i].pc = "reading"
  /\ Commit(enabled, pmtilesUrl, hasCache, CatchError(Cur, i, RuntimeMsg))
  /\ storeQueue' = Requeued(storeQueue, i)
  /\ UNCHANGED <<offlineBlob, store>>

\* (variant: the running segment count wins over the estimate)
ReadyStatusRunning(estimatedChunks, storedChunks, receivedBytes, totalBytes, size) ==
  LET finalChunks == OrElse(OrElse(storedChunks, estimatedChunks), 1)
  IN [phase |-> "ready",
      storedChunks |-> finalChunks,
      totalChunks |-> finalChunks,
      bytesStored |-> OrElse(receivedBytes, size),
      totalBytes |-> IF totalBytes # Undefined THEN totalBytes ELSE size,
      error |-> NoError]

\* the status set on completion
ReadyStatus(estimatedChunks, storedChunks, receivedBytes, totalBytes, size) ==
  LET finalChunks == OrElse(OrElse(estimatedChunks, storedChunks), 1)
  IN [phase |-> "ready",
      storedChunks |-> finalChunks,
      totalChunks |-> finalChunks,
      bytesStored |-> OrElse(receivedBytes, size),
      totalBytes |-> IF totalBytes # Undefined THEN totalBytes ELSE size,
      error |-> NoError]

\* the try block after await savePMTilesBlob(...), then finally
Completed(m, i, blob) ==
  [m EXCEPT !.cachedSourceUrl = m.att[i].url,
            !.status = ReadyStatus(
                         EstimatedChunks(TotalBytes(m.att[i].contentLength)),
                         m.att[i].storedChunks, m.att[i].receivedBytes,
                         TotalBytes(m.att[i].contentLength), blob.size),
            !.controllerRef = 0,
            !.att = Finished(m.att, i)]

\* await savePMTilesBlob(...) resolves
SaveDone ==
  /\ Quiescent
  /\ storeQueue # <<>> /\ Head(storeQueue).op = "set"
  /\ LET i == Head(storeQueue).att
         record == Head(storeQueue).value
     IN /\ store' = record
        /\ offlineBlob' = Applied(record.blob, offlineBlob)
        /\ Commit(enabled, pmtilesUrl, TRUE, Completed(Cur, i, record.blob))
        /\ storeQueue' = Requeued(Tail(storeQueue), i)

\* await savePMTilesBlob(...) rejects (the store refuses the write)
SaveFail ==
  /\ Quiescent
  /\ storeQueue # <<>> /\ Head(storeQueue).op = "set"
  /\ Commit(enabled, pmtilesUrl, hasCache,
            CatchError(Cur, Head(storeQueue).att, RuntimeMsg))
  /\ storeQueue' = Requeued(Tail(storeQueue), Head(storeQueue).att)
  /\ UNCHANGED <<offlineBlob, store>>

\* ------------------------------------------------------ start-up cache read
\* the status set when the start-up read finds a blob
CachedStatus(blob) ==
  LET chunkEstimate == Max(1, Ceil(blob.size, CHUNK_SIZE))
  IN [phase |-> "ready",
      storedChunks |-> chunkEstimate,
      totalChunks |-> chunkEstimate,
      bytesStored |-> blob.size,
      totalBytes |-> blob.size,
      error |-> NoError]

StartupRead ==
  /\ Quiescent
  /\ storeQueue # <<>> /\ Head(storeQueue).op = "get"
  /\ LET record == readPMTilesBlob(store)
         blob == record.blob
     IN /\ offlineBlob' = Applied(blob, offlineBlob)
        /\ Commit(enabled, pmtilesUrl, blob # NoBlob,
                  [Cur EXCEPT !.cachedSourceUrl = record.sourceUrl,
                              !.status = IF blob # NoBlob
                                         THEN CachedStatus(blob)
                                         ELSE @])
  /\ storeQueue' = Tail(storeQueue)
  /\ UNCHANGED store

\* ---------------------------------------------------------- user requests
\* the settings panel's button calls onPause while the phase is downloading
pauseCaching ==
  /\ Quiescent
  /\ status.phase = "downloading"
  /\ Commit(enabled, pmtilesUrl, hasCache, Abort(Cur, controllerRef, "pause"))
  /\ UNCHANGED <<offlineBlob, store, storeQueue>>

\* ... and onResume in every other phase
resumeCaching ==
  /\ Quiescent
  /\ status.phase # "downloading"
  /\ pmtilesUrl # Null
  /\ FreeSlots(att) # {}
  /\ Commit(enabled, pmtilesUrl, hasCache,
            startCaching(pmtilesUrl, Cur, "start"))
  /\ UNCHANGED <<offlineBlob, store, storeQueue>>

PendingClears ==
  Cardinality({k \in DOMAIN storeQueue : storeQueue[k].op = "del"})

\* clearCache up to its await; the button is disabled unless hasCache
clearCache ==
  /\ Quiescent
  /\ hasCache
  /\ PendingClears < MaxPendingClears
  /\ Commit(enabled, pmtilesUrl, hasCache, resetController(Cur, "clear"))
  /\ storeQueue' =
       Append(storeQueue, [op |-> "del", att |-> 0, value |-> NoValue])
  /\ UNCHANGED <<offlineBlob, store>>

\* clearCache after await clearPMTilesBlob()
ClearDone ==
  /\ Quiescent
  /\ storeQueue # <<>> /\ Head(storeQueue).op = "del"
  /\ store' = clearPMTilesBlob
  /\ offlineBlob' = Applied(NoBlob, offlineBlob)
  /\ Commit(enabled, pmtilesUrl, FALSE,
            [Cur EXCEPT !.cachedSourceUrl = Null, !.status = IdleStatus])
  /\ storeQueue' = Tail(storeQueue)

\* the offline toggle: onToggle(event.target.checked)
setEnabled ==
  /\ Quiescent
  /\ Commit(~enabled, pmtilesUrl, hasCache, Cur)
  /\ UNCHANGED <<offlineBlob, store, storeQueue>>

\* the app resolves a (different) basemap source
SourceChanged ==
  /\ Quiescent
  /\ \E u \in Urls \ {pmtilesUrl} : Commit(enabled, u, hasCache, Cur)
  /\ UNCHANGED <<offlineBlob, store, storeQueue>>

Next ==
  \/ setEnabled
  \/ SourceChanged
  \/ pauseCaching
  \/ resumeCaching
  \/ clearCache
  \/ ClearDone
  \/ StartupRead
  \/ \E i \in Attempts : FetchResolve(i)
  \/ \E i \in Attempts : FetchReject(i)
  \/ \E i \in Attempts : ReadChunk(i)
  \/ \E i \in Attempts : ReadDone(i)
  \/ \E i \in Attempts : ReadError(i)
  \/ SaveDone
  \/ SaveFail
  \/ AbortCatch

Spec == Init /\ [][Next]_vars

\* The hook with the offline toggle left off and the downloads into an empty
\* cache driven from the settings panel, under every transport behaviour of
\* the Acct alphabets.
InitAcct == Init /\ ~enabled

\* the app resolves its first basemap source
SourceResolved == pmtilesUrl = Null /\ SourceChanged

\* Resume pressed while nothing is cached
resumeUncached == ~hasCache /\ resumeCaching

NextAcct ==
  \/ SourceResolved
  \/ pauseCaching
  \/ resumeUncached
  \/ StartupRead
  \/ \E i \in Attempts : FetchResolveAcct(i)
  \/ \E i \in Attempts : FetchReject(i)
  \/ \E i \in Attempts : ReadChunkAcct(i)
  \/ \E i \in Attempts : ReadDone(i)
  \/ \E i \in Attempts : ReadError(i)
  \/ SaveDone
  \/ AbortCatch

SpecAcct == InitAcct /\ [][NextAcct]_vars

\* ===================================================================
\* Properties
\* ===================================================================

\* the number of invocations of startCaching that have not returned
Running(a) == Cardinality(Attempts \ FreeSlots(a))

\* a step in which a new download attempt starts: there is one more
\* invocation than before, or as many although one returned (only a
\* completing invocation changes a dependency of the enable effect)
AttemptStarts ==
  \/ Running(att') > Running(att)
  \/ SaveDone /\ Running(att') = Running(att)

\* the store requests issued and not yet completed, whoever issued them
Requests(q) == [k \in DOMAIN q |-> [op |-> q[k].op, value |-> q[k].value]]

\* a tile archive record can be read back from the store
RecordExists == readPMTilesBlob(store) # NoValue

\* C1: at most one download attempt is in flight (fetching or reading the
\* response body, and not cancelled) at any time.
C1_AtMostOneInFlight == Cardinality(InFlightSet) <= 1

\* C2: a pause request issued while the phase is Downloading and a request is
\* in flight cancels that request, and the cancellation sets the phase to
\* Paused without touching the error field.
C2_PauseCancels ==
  [][ /\ (pauseCaching /\ InFlightSet # {})
        => (InFlightSet' = {} /\ micro'.by = "pause")
      /\ (AbortCatch /\ micro.by = "pause")
        => (status'.phase = "paused" /\ status'.error = NoError) ]_vars

\* C3: when the toggle is switched off while a download is in flight, the
\* request is cancelled, the persisted archive is kept, and once the
\* cancellation has been delivered the phase is Ready if a cached archive
\* exists and Idle otherwise.
C3_DisableSettles ==
  [][ /\ (setEnabled /\ enabled /\ status.phase = "downloading"
            /\ InFlightSet # {})
        => (InFlightSet' = {} /\ store' = store)
      /\ (AbortCatch /\ micro.by = "disable")
        => (status'.phase = IF hasCache THEN "ready" ELSE "idle") ]_vars

\* C4: when clearCache completes the persisted record is deleted, hasCache is
\* false, the phase is Idle, and no download is started by clearing.
C4_ClearIdempotent ==
  [][ ClearDone
        => /\ store' = NoValue
           /\ hasCache' = FALSE
           /\ status'.phase = "idle"
           /\ ~AttemptStarts ]_vars

\* every byte an attempt has buffered is a byte it received itself: the
\* chunks are consecutive pieces of its own archive, starting at byte 0
OwnBytes(a) ==
  /\ \A k \in DOMAIN a.chunks :
       /\ a.chunks[k].url = a.url
       /\ a.chunks[k].off = SumLen(SubSeq(a.chunks, 1, k - 1))
  /\ a.receivedBytes = SumLen(a.chunks)

\* C5: a resume starts a fresh attempt (bytesStored and storedChunks 0, an
\* empty buffer), an attempt only ever buffers bytes it received itself, and
\* a paused attempt ends without writing to the store, without issuing a
\* write and without setting the phase to Ready.
C5_FreshResume ==
  [][ /\ resumeCaching
        => /\ status'.phase = "downloading"
           /\ status'.bytesStored = 0 /\ status'.storedChunks = 0
           /\ att'[controllerRef'] =
                [NoAttempt EXCEPT !.pc = "fetching", !.url = pmtilesUrl]
      /\ \A i \in Attempts : OwnBytes(att'[i])
      /\ AbortCatch
        => /\ status'.phase = "paused"
           /\ att' = Finished(att, micro.att)
           /\ Requests(storeQueue') = Requests(storeQueue)
           /\ UNCHANGED <<store, hasCache, offlineBlob>> ]_vars

\* a download was paused part-way: progress is shown, nothing was persisted
C5_Witness ==
  /\ status.phase = "paused" /\ status.bytesStored > 0
  /\ \A i \in Attempts : att[i] = NoAttempt
  /\ store = NoValue /\ storeQueue = <<>> /\ ~hasCache

\* C6: an attempt whose response has a non-2xx status ends in phase Error
\* with a message carrying that status code; neither starting the attempt nor
\* its failure changes hasCache or the persisted record.
C6_HttpError ==
  [][ /\ \A i \in Attempts, code \in HttpStatuses, header \in ContentLengths :
           (FetchResponse(i, code, header) /\ ~Ok(code))
             => /\ status'.phase = "error"
                /\ status'.error.code = code
                /\ att' = Finished(att, i)
                /\ Requests(storeQueue') = Requests(storeQueue)
                /\ UNCHANGED <<hasCache, store>>
      /\ resumeCaching => UNCHANGED <<hasCache, store, storeQueue>> ]_vars

\* a 404 was reported while the cached archive is still there
C6_Witness ==
  /\ status.phase = "error" /\ status.error = HttpMsg(404)
  /\ hasCache /\ RecordExists

\* C7: while the phase is Error a new attempt starts only on a resume request,
\* a change of the toggle, or a change of the source URL.
C7_NoAutoRetry ==
  [][ (status.phase = "error" /\ AttemptStarts)
        => (resumeCaching \/ setEnabled \/ SourceChanged) ]_vars

\* the attempt that SaveDone completes, its declared total and received bytes
Completing == Head(storeQueue).att
Declared == att[Completing].contentLength
ReceivedN == att[Completing].receivedBytes

C10_ReadyHasRecord == status.phase = "ready" => RecordExists

\* Ready after a download completed while the toggle is on
C10_Witness ==
  /\ status.phase = "ready" /\ enabled /\ storeQueue = <<>>
  /\ store.kind = "record" /\ store.sourceUrl = REMOTE_PM_TILES_URL

\* ===================================================================
\* Tile source resolver
\* ===================================================================

\* the provenance tag of a cached blob of unknown origin
CACHE_ORIGIN_TAG == "indexeddb://offline-basemap"
\* the name of the file the cached blob is wrapped in
OFFLINE_FILE_NAME == "offline-basemap.pmtiles"

\* provenance strings a cache record may carry
LegacyTag == "indexeddb://legacy"
OfflineSourceUrls ==
  {Null, " ", LOCAL_PM_TILES_PATH, REMOTE_PM_TILES_URL, LegacyTag}

\* s.trim() on the strings above
Trim(s) == IF s = " " THEN "" ELSE s

\* s.startsWith("indexeddb://") on the strings above
StartsWithIndexedDb(s) == s \in {CACHE_ORIGIN_TAG, LegacyTag}

\* outcomes of the HEAD request for the bundled archive
Probes == {"ok", "not ok", "throws"}

\* hasLocalPMTiles, given the outcome of its HEAD request
hasLocalPMTiles(probe) == probe = "ok"

\* `pmtiles://${pmtiles.source.getKey()}`
TileUrl(key) == <<"pmtiles://", key>>

NoInfo ==
  [sourceUrl |-> Null, tileUrl |-> <<>>, usedLocal |-> FALSE,
   usedOfflineCache |-> FALSE]

\* (variant: the bundled archive wins over the cached blob)
resolvePMTilesProbeFirst(blob, offlineSourceUrl, probe) ==
  IF hasLocalPMTiles(probe) \/ blob = NoBlob
  THEN LET useLocal == hasLocalPMTiles(probe)
           sourceUrl == IF useLocal THEN LOCAL_PM_TILES_PATH
                        ELSE REMOTE_PM_TILES_URL
       IN [sourceUrl |-> sourceUrl, tileUrl |-> TileUrl(sourceUrl),
           usedLocal |-> useLocal, usedOfflineCache |-> FALSE]
  ELSE [sourceUrl |-> CACHE_ORIGIN_TAG, tileUrl |-> TileUrl(OFFLINE_FILE_NAME),
        usedLocal |-> TRUE, usedOfflineCache |-> TRUE]

\* the descriptor resolvePMTiles returns (probe is only consulted without a
\* blob)
resolvePMTiles(blob, offlineSourceUrl, probe) ==
  IF blob # NoBlob
  THEN LET sourceUrl ==
             IF offlineSourceUrl # Null /\ Trim(offlineSourceUrl) # ""
             THEN offlineSourceUrl ELSE CACHE_ORIGIN_TAG
           usedLocal ==
             sourceUrl = LOCAL_PM_TILES_PATH \/ StartsWithIndexedDb(sourceUrl)
       IN [sourceUrl |-> sourceUrl, tileUrl |-> TileUrl(OFFLINE_FILE_NAME),
           usedLocal |-> usedLocal, usedOfflineCache |-> TRUE]
  ELSE LET useLocal == hasLocalPMTiles(probe)
           sourceUrl == IF useLocal THEN LOCAL_PM_TILES_PATH
                        ELSE REMOTE_PM_TILES_URL
       IN [sourceUrl |-> sourceUrl, tileUrl |-> TileUrl(sourceUrl),
           usedLocal |-> useLocal, usedOfflineCache |-> FALSE]

\* ===================================================================
\* Map view: binding the basemap
\* ===================================================================
SOURCE_ID == "basemap"

LAYERS ==
  << [key |-> "land", matches |-> {"land", "earth", "park"},
      id |-> "basemap-land"],
     [key |-> "water", matches |-> {"water"}, id |-> "basemap-water"],
     [key |-> "roads", matches |-> {"road", "transport"},
      id |-> "basemap-roads"],
     [key |-> "buildings", matches |-> {"building"},
      id |-> "basemap-buildings"] >>

\* id.toLowerCase().includes(needle) on the layer names archives carry here
Includes(id, needle) ==
  \/ id \in {"water", "waterway"} /\ needle = "water"
  \/ id = "Roads" /\ needle = "road"
  \/ id = "landuse" /\ needle \in {"land", "landuse"}

\* a PMTiles instance: over a file made from a blob, or over a URL
PMTiles(blob, url) == [blob |-> blob, url |-> url]

\* where the bytes of an archive come from
ContentOf(pmtiles) ==
  IF pmtiles.blob # NoBlob THEN pmtiles.blob.parts[1].url ELSE pmtiles.url

\* pmtiles.getMetadata().vector_layers: the bundled archives carry one
\* list, the hosted ones the other
vector_layers(pmtiles) ==
  IF ContentOf(pmtiles) \in
       {"/tiles/basemap.pmtiles", "/SORDFIELDKIT/tiles/basemap.pmtiles"}
  THEN <<"waterway", "water">>
  ELSE <<"poi", "Roads", "landuse">>

\* pmtiles.source.getKey(): the file name, or the URL
getKey(pmtiles) ==
  IF pmtiles.blob # NoBlob THEN "offline-basemap.pmtiles" ELSE pmtiles.url

NoProtocol == [registered |-> FALSE, tiles |-> {}]

\* ensureProtocol: maplibregl.addProtocol("pmtiles", ...) once
ensureProtocol(p) == [p EXCEPT !.registered = TRUE]

\* (variant: the archive is not handed to the protocol)
protocolAddNothing(p, pmtiles) == p

\* protocol.add(pmtiles): the archive is served under its key
protocolAdd(p, pmtiles) ==
  [p EXCEPT !.tiles = {t \in @ : t.key # getKey(pmtiles)}
                        \cup {[key |-> getKey(pmtiles), pmtiles |-> pmtiles]}]

\* the archive a run of installBasemap holds
PMTilesOf(run) ==
  IF run.blob # NoBlob THEN PMTiles(run.blob, Null)
  ELSE PMTiles(NoBlob, run.info.sourceUrl)

\* visibleLayers[key] ?? true
Visible(toggles, key) == IF key \in DOMAIN toggles THEN toggles[key] ELSE TRUE

\* the cached blobs the view may be handed
MapBlobs == {NoBlob, PriorBlob}

\* the refs mirror the props once the effects of a render have run
offlineBlobRef == offlineBlob
offlineSourceUrlRef == cachedSourceUrl

NoSource == [url |-> <<>>, instance |-> 0]

\* the part of the view an installBasemap run reads and writes
View ==
  [mapSource |-> mapSource, mapLayers |-> mapLayers,
   layerIdsRef |-> layerIdsRef, installs |-> installs,
   protocol |-> protocol]

TrackedIds(ref) == {p.id : p \in ref}

removeLayerCollection(v) ==
  [v EXCEPT !.mapLayers = {l \in @ : l.id \notin TrackedIds(v.layerIdsRef)},
            !.layerIdsRef = {}]

\* map.removeSource if present, then map.addSource: a new source object
addVectorSource(v, tileUrl) ==
  [v EXCEPT !.mapSource = [url |-> tileUrl, instance |-> 1 - @.instance]]

\* run k returns
Returned(v, k) ==
  [v EXCEPT !.installs =
     SubSeq(@, 1, k - 1) \o SubSeq(@, k + 1, Len(@))]

\* installBasemap from the descriptor to its await of the metadata: the
\* archive has been handed to the protocol by resolvePMTiles; adding a
\* source to a map whose style has not loaded throws, and the run is over
Bound(v, k, info, styleLoaded) ==
  LET pmtiles == PMTilesOf([v.installs[k] EXCEPT !.info = info])
      a == removeLayerCollection(
             [v EXCEPT !.protocol = protocolAdd(@, pmtiles)])
  IN IF styleLoaded
     THEN [addVectorSource(a, info.tileUrl) EXCEPT
             !.installs[k].pc = "metadata", !.installs[k].info = info]
     ELSE Returned(a, k)

\* installBasemap(map, blob) up to its first await that leaves the event
Called(v, blob, sourceUrlRef, styleLoaded) ==
  LET src == IF blob # NoBlob THEN sourceUrlRef ELSE Null
      run == [pc |-> "probing", blob |-> blob, src |-> src,
              probe |-> "none", info |-> NoInfo]
      a == [v EXCEPT !.installs = Append(@, run),
                     !.protocol = ensureProtocol(@)]
  IN IF blob # NoBlob
     THEN Bound(a, Len(a.installs), resolvePMTiles(blob, src, "none"),
                styleLoaded)
     ELSE a

\* (variant: the last matching layer name is taken)
SourceLayerLast(available, d) ==
  LET hits == {k \in DOMAIN available :
                 \E needle \in d.matches : Includes(available[k], needle)}
  IN IF hits = {} THEN ""
     ELSE available[CHOOSE k \in hits : \A j \in hits : k >= j]

\* the first layer name an archive offers for a role, "" if none
SourceLayer(available, d) ==
  LET hits == {k \in DOMAIN available :
                 \E needle \in d.matches : Includes(available[k], needle)}
  IN IF hits = {} THEN ""
     ELSE available[CHOOSE k \in hits : \A j \in hits : k <= j]

Matched(descs, available) ==
  {k \in DOMAIN descs : SourceLayer(available, descs[k]) # ""}

\* the forEach over the layer descriptors once the metadata is known; shown
\* tells which roles are added visible
LayersAdded(descs, v, available, shown) ==
  LET ids == {descs[k].id : k \in Matched(descs, available)}
      keys == {descs[k].key : k \in Matched(descs, available)}
  IN [v EXCEPT
        !.mapLayers =
          {l \in @ : l.id \notin ids} \cup
          {[id |-> descs[k].id,
            sourceLayer |-> SourceLayer(available, descs[k]),
            visible |-> shown[descs[k].key]] :
             k \in Matched(descs, available)},
        !.layerIdsRef =
          {p \in @ : p.key \notin keys} \cup
          {[key |-> descs[k].key, id |-> descs[k].id] :
             k \in Matched(descs, available)}]

SetView(v) ==
  /\ mapSource' = v.mapSource
  /\ mapLayers' = v.mapLayers
  /\ layerIdsRef' = v.layerIdsRef
  /\ installs' = v.installs
  /\ protocol' = v.protocol

\* the markers after the reconciliation effect: one per waypoint id, at its
\* position; a marker that existed is kept (and moved), others are new
Reconciled(markers, wps) ==
  {[id |-> wps[k].id, pos |-> wps[k].pos,
    kept |-> \E m \in markers : m.id = wps[k].id] : k \in DOMAIN wps}

hookRest ==
  <<enabled, pmtilesUrl, hasCache, status, controllerRef, att, micro, store,
    storeQueue>>

\* the view is mounted: the map is constructed, and the offline-source effect
\* and the marker effect run
MountMapView ==
  /\ mapRef = 0
  /\ mapRef' = 1
  /\ mapLoaded' = "constructed"
  /\ SetView(Called(View, offlineBlob, offlineSourceUrlRef, FALSE))
  /\ markersRef' = Reconciled(markersRef, waypoints)
  /\ UNCHANGED <<hookVars, mounted, visibleLayers, waypoints, bootstrap>>

\* the style of the live map has loaded
StyleLoaded ==
  /\ mapLoaded = "constructed"
  /\ mapLoaded' = "style"
  /\ UNCHANGED <<hookVars, mounted, visibleLayers, mapRef, mapSource,
                 mapLayers, layerIdsRef, installs, waypoints, markersRef,
                 bootstrap, protocol>>

\* map.on("load")
MapLoad ==
  /\ mapLoaded = "style"
  /\ Len(installs) < MaxInstalls
  /\ mapLoaded' = "load"
  /\ SetView(Called(View, offlineBlobRef, offlineSourceUrlRef, TRUE))
  /\ UNCHANGED <<hookVars, mounted, visibleLayers, mapRef, waypoints,
                 markersRef, bootstrap>>

\* the owner hands the view another cached blob or provenance
OfflineSourceChanged ==
  /\ mapRef # 0
  /\ Len(installs) < MaxInstalls
  /\ \E blob \in MapBlobs, src \in OfflineSourceUrls :
       /\ <<blob, src>> # <<offlineBlob, cachedSourceUrl>>
       /\ offlineBlob' = blob
       /\ cachedSourceUrl' = src
       /\ SetView(Called(View, blob, src, mapLoaded # "constructed"))
  /\ UNCHANGED <<hookRest, mounted, visibleLayers, mapRef, mapLoaded,
                 waypoints, markersRef, bootstrap>>

\* the HEAD request of run k settles and resolvePMTiles returns
ProbeDone(k) ==
  /\ k \in DOMAIN installs
  /\ installs[k].pc = "probing"
  /\ \E probe \in Probes :
       SetView(Bound([View EXCEPT !.installs[k].probe = probe], k,
                     resolvePMTiles(NoBlob, Null, probe),
                     mapLoaded # "constructed"))
  /\ UNCHANGED <<hookVars, mounted, visibleLayers, mapRef, mapLoaded,
                 waypoints, markersRef, bootstrap>>

\* pmtiles.getMetadata() of run k resolves; the layers are added and the run
\* returns
MetadataDone(k) ==
  /\ k \in DOMAIN installs
  /\ installs[k].pc = "metadata"
  /\ SetView(Returned(LayersAdded(LAYERS, View,
                                  vector_layers(PMTilesOf(installs[k])),
                                  [key \in DOMAIN visibleLayers |-> TRUE]),
                      k))
  /\ UNCHANGED <<hookVars, mounted, visibleLayers, mapRef, mapLoaded,
                 waypoints, markersRef, bootstrap>>

\* pmtiles.getMetadata() of run k rejects; the run returns
MetadataFail(k) ==
  /\ k \in DOMAIN installs
  /\ installs[k].pc = "metadata"
  /\ SetView(Returned(View, k))
  /\ UNCHANGED <<hookVars, mounted, visibleLayers, mapRef, mapLoaded,
                 waypoints, markersRef, bootstrap>>

\* the view next to a hook that is left alone
InitMap ==
  /\ enabled = FALSE
  /\ pmtilesUrl = Null
  /\ offlineBlob \in MapBlobs
  /\ cachedSourceUrl \in OfflineSourceUrls
  /\ hasCache = (offlineBlob # NoBlob)
  /\ status = IdleStatus
  /\ controllerRef = 0
  /\ att = [i \in Attempts |-> NoAttempt]
  /\ micro = NoTask
  /\ store = NoValue
  /\ storeQueue = <<>>
  /\ mounted = TRUE
  /\ NoMapView

NextMap ==
  \/ MountMapView
  \/ StyleLoaded
  \/ MapLoad
  \/ OfflineSourceChanged
  \/ \E k \in 1..MaxInstalls : ProbeDone(k)
  \/ \E k \in 1..MaxInstalls : MetadataDone(k)
  \/ \E k \in 1..MaxInstalls : MetadataFail(k)

SpecMap == InitMap /\ [][NextMap]_vars

\* ------------------------------------------------------------ layer toggles
\* the roles the layer panel is used on
ToggleKeys == {"water", "roads"}

\* the visibility effect: every toggle whose tracked layer is on the map sets
\* that layer's visibility
VisibilityApplied(layers, ref, toggles) ==
  {IF \E p \in ref : p.id = l.id /\ p.key \in DOMAIN toggles
     THEN [l EXCEPT !.visible =
             toggles[(CHOOSE p \in ref : p.id = l.id).key]]
     ELSE l : l \in layers}

\* the owner's toggle handler; the view renders with the new toggles and its
\* visibility effect runs
handleLayerVisibility(key, visible) ==
  /\ mounted
  /\ LET next == [visibleLayers EXCEPT ![key] = visible]
     IN /\ visibleLayers' = next
        /\ mapLayers' = IF mapRef = 0 THEN mapLayers
                        ELSE VisibilityApplied(mapLayers, layerIdsRef, next)
  /\ UNCHANGED <<hookVars, mounted, mapRef, mapLoaded, mapSource, layerIdsRef,
                 installs, waypoints, markersRef, bootstrap, protocol>>

NextVis ==
  \/ NextMap
  \/ \E key \in ToggleKeys, visible \in BOOLEAN :
       handleLayerVisibility(key, visible)

SpecVis == InitMap /\ [][NextVis]_vars

\* ------------------------------------------------------ the view in the app
\* map instances constructed in one behaviour
MaxMaps == 3

\* a run whose map has been removed keeps its closure
OnRemovedMap(run) ==
  [run EXCEPT !.pc = IF @ \in {"probing", "probing on removed map"}
                       THEN "probing on removed map"
                       ELSE "metadata on removed map"]

\* the app renders: its inline onMapReady and onSourceChanged are new
\* functions, so installBasemap is a new callback; the cleanup of the map
\* effect removes the map, the map effect constructs another, and the
\* offline-source effect calls installBasemap on it
AppRendered(v) ==
  Called([v EXCEPT !.mapSource = NoSource, !.mapLayers = {},
                   !.installs = [i \in DOMAIN @ |-> OnRemovedMap(@[i])]],
         offlineBlob, offlineSourceUrlRef, FALSE)

\* onSourceChanged(info) and onMapReady(map, info) at the end of a run:
\* setBasemapInfo with a new descriptor object, and the app renders
setBasemapInfo(v) ==
  /\ mapRef < MaxMaps
  /\ mapRef' = mapRef + 1
  /\ mapLoaded' = "constructed"
  /\ markersRef' = {}
  /\ SetView(AppRendered(v))
  /\ UNCHANGED <<hookVars, mounted, visibleLayers, waypoints, bootstrap>>

\* getMetadata of run k on the live map resolves; the layers are added and
\* the descriptor is reported
InstallReported(k) ==
  /\ k \in DOMAIN installs
  /\ installs[k].pc = "metadata"
  /\ setBasemapInfo(
       Returned(LayersAdded(LAYERS, View,
                            vector_layers(PMTilesOf(installs[k])),
                            [key \in DOMAIN visibleLayers |-> TRUE]),
                k))

\* getMetadata of run k on the live map rejects; the catch logs and the
\* descriptor is reported
InstallFailedReported(k) ==
  /\ k \in DOMAIN installs
  /\ installs[k].pc = "metadata"
  /\ setBasemapInfo(Returned(View, k))

\* resolvePMTiles of a run on a removed map returns: the archive is handed to
\* the protocol, and the first style call on the removed map throws
RemovedMapProbeDone(k) ==
  /\ k \in DOMAIN installs
  /\ installs[k].pc = "probing on removed map"
  /\ \E probe \in Probes :
       SetView(Returned(
         [View EXCEPT !.protocol =
            protocolAdd(@, PMTilesOf([installs[k] EXCEPT !.info =
                                        resolvePMTiles(NoBlob, Null, probe)]))],
         k))
  /\ UNCHANGED <<hookVars, mounted, visibleLayers, mapRef, mapLoaded,
                 waypoints, markersRef, bootstrap>>

\* getMetadata of a run on a removed map settles: a style call inside the
\* try throws and is caught, or nothing matched, or the read rejected; the
\* descriptor is reported
RemovedMapReported(k) ==
  /\ k \in DOMAIN installs
  /\ installs[k].pc = "metadata on removed map"
  /\ setBasemapInfo(Returned(View, k))

\* the view under the app, with a cached blob and provenance that stay as
\* they are
NextApp ==
  \/ MountMapView
  \/ StyleLoaded
  \/ MapLoad
  \/ \E k \in 1..MaxInstalls : ProbeDone(k)
  \/ \E k \in 1..MaxInstalls : InstallReported(k)
  \/ \E k \in 1..MaxInstalls : InstallFailedReported(k)
  \/ \E k \in 1..MaxInstalls : RemovedMapProbeDone(k)
  \/ \E k \in 1..MaxInstalls : RemovedMapReported(k)

SpecApp == InitMap /\ [][NextApp]_vars

\* ------------------------------------------------------- displayed progress
Min(a, b) == IF a <= b THEN a ELSE b

\* Math.round(a / b * 100) for non-negative a and positive b
RoundPercent(a, b) == (200 * a + b) \div (2 * b)

\* the progress memo of the hook
progress(st) ==
  IF st.totalChunks = 0 THEN 0
  ELSE Min(100, RoundPercent(st.storedChunks, st.totalChunks))

\* C11: whenever the response declared its total size, the status reported
\* after each chunk of a body no longer than declared and the one reported at
\* completion have storedChunks <= totalChunks.
C11_ChunksWithinTotal ==
  [][ /\ \A i \in Attempts :
           (/\ ReadChunkAcct(i)
            /\ att[i].contentLength # NoHeader
            /\ att'[i].receivedBytes <= att[i].contentLength)
             => status'.storedChunks <= status'.totalChunks
      /\ (SaveDone /\ Declared # NoHeader)
           => status'.storedChunks <= status'.totalChunks ]_vars

\* C12: when the response declared no total size, every status reported
\* while the download is in progress has totalChunks = 0 and the displayed
\* progress is 0%.
C12_UnknownTotalStaysZero ==
  [][ \A i \in Attempts :
        (ReadChunkAcct(i) /\ att[i].contentLength = NoHeader)
          => (status'.totalChunks = 0 /\ progress(status') = 0) ]_vars

\* ===================================================================
\* Stand-alone map view (src/components/MapView.tsx): bootstrap and markers
\* ===================================================================
MaxWaypoints == 2

LOCAL_PM_CANDIDATES ==
  <<"/SORDFIELDKIT/tiles/basemap.pmtiles", "/tiles/basemap.pmtiles">>
DEMO_PM == "https://demotiles.maplibre.org/tiles/planet.pmtiles"

LAYER_DESCRIPTORS ==
  << [key |-> "land",
      matches |-> {"land", "earth", "park", "landuse", "landcover"},
      id |-> "pm-land"],
     [key |-> "water", matches |-> {"water"}, id |-> "pm-water"],
     [key |-> "roads", matches |-> {"road", "transport", "transportation"},
      id |-> "pm-roads"],
     [key |-> "buildings", matches |-> {"building"}, id |-> "pm-buildings"],
     [key |-> "boundaries", matches |-> {"boundary", "admin"},
      id |-> "pm-boundaries"],
     [key |-> "labels", matches |-> {"label", "place"}, id |-> "pm-labels"] >>

\* pickSource: the first candidate whose HEAD probe is ok, else the demo
\* archive; oks is the set of candidates that answer ok
pickSource(oks) ==
  IF oks = {} THEN DEMO_PM
  ELSE LOCAL_PM_CANDIDATES[CHOOSE k \in oks : \A j \in oks : k <= j]

NoBootstrap == [pc |-> "none", src |-> Null]

WaypointIds == 1..MaxWaypoints
Positions == {"p", "q"}
IdsOf(wps) == {wps[k].id : k \in DOMAIN wps}
MarkerIds(markers) == {m.id : m \in markers}

\* loadStoredWaypoints: what localStorage held
StoredWaypoints == {<<>>, <<[id |-> 1, pos |-> "p"]>>}

\* the marker effect: nothing without a live map
MarkerEffect(map, markers, wps) ==
  IF map = 0 THEN markers ELSE Reconciled(markers, wps)

\* the ref mirrors the toggles; a role without a toggle counts as on
enabledLayersRef ==
  [k \in {LAYER_DESCRIPTORS[j].key : j \in DOMAIN LAYER_DESCRIPTORS} |->
     Visible(visibleLayers, k)]

removeLayers(v) == [removeLayerCollection(v) EXCEPT !.mapSource.url = <<>>]

addSource(v, url) ==
  [v EXCEPT !.mapSource = [url |-> url, instance |-> 1 - @.instance]]

\* the bootstrap effect runs (its guard passes, no map yet): a new protocol
\* object is registered, and pickSource is awaited; then the marker effect
\* runs
Bootstrapped(wps, markers) ==
  /\ mapRef' = 0
  /\ mapLoaded' = "none"
  /\ bootstrap' = [pc |-> "picking", src |-> Null]
  /\ protocol' = ensureProtocol(NoProtocol)
  /\ markersRef' = MarkerEffect(0, markers, wps)

\* first render of the stand-alone view
BootMount ==
  /\ bootstrap.pc = "none"
  /\ Bootstrapped(waypoints, markersRef)
  /\ UNCHANGED <<hookVars, mounted, visibleLayers, mapSource, mapLayers,
                 layerIdsRef, installs, waypoints>>

\* pickSource resolves for the bootstrap that is not cancelled: the map is
\* constructed
PickDone ==
  /\ bootstrap.pc = "picking"
  /\ \E oks \in SUBSET DOMAIN LOCAL_PM_CANDIDATES :
       bootstrap' = [pc |-> "map", src |-> pickSource(oks)]
  /\ mapRef' = 1
  /\ mapLoaded' = "constructed"
  /\ UNCHANGED <<hookVars, mounted, visibleLayers, mapSource, mapLayers,
                 layerIdsRef, installs, waypoints, markersRef, protocol>>

\* map.once('load'): installBasemap(map, src) finds no source 'pm' on the
\* map, hands the archive to the protocol and goes on to await the header
\* and the metadata
BootLoad ==
  /\ bootstrap.pc = "map"
  /\ bootstrap' = [bootstrap EXCEPT !.pc = "installing"]
  /\ mapLoaded' = "load"
  /\ protocol' = protocolAdd(protocol, PMTiles(NoBlob, bootstrap.src))
  /\ UNCHANGED <<hookVars, mounted, visibleLayers, mapRef, mapSource,
                 mapLayers, layerIdsRef, installs, waypoints, markersRef>>

\* header and metadata are in (or failed: no vector layers); the source and
\* the layers are added
BootInstalled ==
  /\ bootstrap.pc = "installing"
  /\ \E available \in {vector_layers(PMTiles(NoBlob, bootstrap.src)), <<>>} :
       SetView(LayersAdded(LAYER_DESCRIPTORS,
                           addSource(removeLayers(View),
                                     TileUrl(bootstrap.src)),
                           available, enabledLayersRef))
  /\ bootstrap' = [bootstrap EXCEPT !.pc = "ready"]
  /\ UNCHANGED <<hookVars, mounted, visibleLayers, mapRef, mapLoaded,
                 waypoints, markersRef>>

\* setWaypoints(next): the bootstrap effect depends on waypoints, so its
\* cleanup runs (markers and map removed, refs reset; a bootstrap or install
\* still in flight is cancelled and finds its map removed), then the effect
\* itself and the marker effect
WaypointsSet(next) ==
  /\ bootstrap.pc # "none"
  /\ waypoints' = next
  /\ mapSource' = NoSource
  /\ mapLayers' = {}
  /\ layerIdsRef' = {}
  /\ Bootstrapped(next, {})
  /\ UNCHANGED <<hookVars, mounted, visibleLayers, installs>>

addWaypoint ==
  /\ Len(waypoints) < MaxWaypoints
  /\ \E id \in WaypointIds \ IdsOf(waypoints), pos \in Positions :
       WaypointsSet(Append(waypoints, [id |-> id, pos |-> pos]))

removeWaypoint ==
  \E k \in DOMAIN waypoints :
    WaypointsSet(SubSeq(waypoints, 1, k - 1)
                   \o SubSeq(waypoints, k + 1, Len(waypoints)))

clearWaypoints ==
  /\ waypoints # <<>>
  /\ WaypointsSet(<<>>)

InitBoot ==
  /\ enabled = FALSE
  /\ pmtilesUrl = Null
  /\ offlineBlob = NoBlob
  /\ cachedSourceUrl = Null
  /\ hasCache = FALSE
  /\ status = IdleStatus
  /\ controllerRef = 0
  /\ att = [i \in Attempts |-> NoAttempt]
  /\ micro = NoTask
  /\ store = NoValue
  /\ storeQueue = <<>>
  /\ mounted = TRUE
  /\ mapRef = 0
  /\ mapLoaded = "none"
  /\ mapSource = NoSource
  /\ mapLayers = {}
  /\ layerIdsRef = {}
  /\ installs = <<>>
  /\ waypoints \in StoredWaypoints
  /\ markersRef = {}
  /\ bootstrap = NoBootstrap
  /\ protocol = NoProtocol
  /\ visibleLayers =
       [k \in {LAYER_DESCRIPTORS[j].key : j \in DOMAIN LAYER_DESCRIPTORS} |->
          TRUE]

NextBoot ==
  \/ BootMount
  \/ PickDone
  \/ BootLoad
  \/ BootInstalled
  \/ addWaypoint
  \/ removeWaypoint
  \/ clearWaypoints

SpecBoot == InitBoot /\ [][NextBoot]_vars

\* ===================================================================
\* The cache manager over its whole life: store failures outside
\* startCaching, and the owner being torn down
\* ===================================================================
\* await readPMTilesBlob() rejects in the start-up effect: the async function
\* has no catch, and nothing after the await runs
StartupReadFail ==
  /\ Quiescent
  /\ storeQueue # <<>> /\ Head(storeQueue).op = "get"
  /\ storeQueue' = Tail(storeQueue)
  /\ UNCHANGED <<enabled, pmtilesUrl, offlineBlob, cachedSourceUrl, hasCache,
                 status, controllerRef, att, micro, store, mounted, mapVars>>

\* await clearPMTilesBlob() rejects in clearCache: no catch either
ClearFail ==
  /\ Quiescent
  /\ storeQueue # <<>> /\ Head(storeQueue).op = "del"
  /\ storeQueue' = Tail(storeQueue)
  /\ UNCHANGED <<enabled, pmtilesUrl, offlineBlob, cachedSourceUrl, hasCache,
                 status, controllerRef, att, micro, store, mounted, mapVars>>

\* the component that calls useOffline is unmounted: the cleanup of the
\* start-up effect sets its cancelled flag; no other effect has a cleanup
Unmount ==
  /\ Quiescent
  /\ mounted
  /\ mounted' = FALSE
  /\ UNCHANGED <<hookVars, mapVars>>

NextLife ==
  \/ mounted /\ setEnabled
  \/ mounted /\ SourceChanged
  \/ mounted /\ pauseCaching
  \/ mounted /\ resumeCaching
  \/ mounted /\ clearCache
  \/ Unmount
  \/ ClearDone
  \/ ClearFail
  \/ StartupRead
  \/ StartupReadFail
  \/ \E i \in Attempts : FetchResolve(i)
  \/ \E i \in Attempts : FetchReject(i)
  \/ \E i \in Attempts : ReadChunk(i)
  \/ \E i \in Attempts : ReadDone(i)
  \/ \E i \in Attempts : ReadError(i)
  \/ SaveDone
  \/ SaveFail
  \/ AbortCatch

SpecLife == Init /\ [][NextLife]_vars

\* ===================================================================
\* The store by itself: writers of both versions, a reader, foreign values
\* ===================================================================
StoreBlobs ==
  {PriorBlob, Content(REMOTE_PM_TILES_URL, 0), Content(REMOTE_PM_TILES_URL, 2)}

\* values under the key that neither writer leaves there
ForeignValues == {Junk, PMTilesCacheRecord(NoBlob, LOCAL_PM_TILES_PATH)}

storeRest ==
  <<enabled, pmtilesUrl, hasCache, status, controllerRef, att, micro,
    storeQueue, mounted, mapVars>>

\* await savePMTilesBlob(blob, sourceUrl)
SaveRecord(blob, sourceUrl) ==
  /\ store' = savePMTilesBlob(blob, sourceUrl)
  /\ UNCHANGED <<offlineBlob, cachedSourceUrl, storeRest>>

\* the earlier version's savePMTilesBlob(blob): the bare blob under the key
LegacySave(blob) ==
  /\ store' = BareBlob(blob)
  /\ UNCHANGED <<offlineBlob, cachedSourceUrl, storeRest>>

\* await clearPMTilesBlob()
ClearRecord ==
  /\ store # NoValue
  /\ store' = clearPMTilesBlob
  /\ UNCHANGED <<offlineBlob, cachedSourceUrl, storeRest>>

\* something else wrote under the key
ForeignWrite ==
  /\ store' \in ForeignValues
  /\ store' # store
  /\ UNCHANGED <<offlineBlob, cachedSourceUrl, storeRest>>

\* const record = await readPMTilesBlob(); blob = record?.blob ?? null,
\* record?.sourceUrl ?? null
ReadRecord ==
  /\ LET record == readPMTilesBlob(store)
     IN /\ offlineBlob' = record.blob
        /\ cachedSourceUrl' = record.sourceUrl
  /\ UNCHANGED <<store, storeRest>>

InitStore ==
  /\ enabled = FALSE
  /\ pmtilesUrl = Null
  /\ offlineBlob = NoBlob
  /\ cachedSourceUrl = Null
  /\ hasCache = FALSE
  /\ status = IdleStatus
  /\ controllerRef = 0
  /\ att = [i \in Attempts |-> NoAttempt]
  /\ micro = NoTask
  /\ store = NoValue
  /\ storeQueue = <<>>
  /\ mounted = TRUE
  /\ NoMapView

NextStore ==
  \/ \E blob \in StoreBlobs, sourceUrl \in Urls \cup {Null} :
       SaveRecord(blob, sourceUrl)
  \/ \E blob \in StoreBlobs : LegacySave(blob)
  \/ ClearRecord
  \/ ForeignWrite
  \/ ReadRecord

SpecStore == InitStore /\ [][NextStore]_vars

\* --------------------------------------------------------- source priority
\* the provenance a descriptor carries for a cached blob: the recorded one,
\* or the cache-origin tag when none (or a blank one) was recorded
Provenance(src) == IF src \in {Null, " "} THEN CACHE_ORIGIN_TAG ELSE src

\* C13: a run of installBasemap that has resolved its source holds the
\* descriptor of the first source available, in priority order: a supplied
\* blob (usedOfflineCache, and usedLocal exactly when its provenance is the
\* bundled-local path or an indexeddb:// tag), else the bundled archive when
\* the probe succeeded (usedLocal only), else the remote URL (neither flag);
\* a probe that fails or throws resolves to the remote source.
C13_ResolverPriority ==
  \A k \in DOMAIN installs :
    installs[k].pc = "metadata" =>
      LET r == installs[k]
          info == r.info
      IN IF r.blob # NoBlob
         THEN /\ info.usedOfflineCache
              /\ info.sourceUrl = Provenance(r.src)
              /\ info.usedLocal <=>
                   info.sourceUrl \in
                     {LOCAL_PM_TILES_PATH, CACHE_ORIGIN_TAG, LegacyTag}
              /\ info.tileUrl = TileUrl(OFFLINE_FILE_NAME)
         ELSE IF r.probe = "ok"
         THEN /\ info.usedLocal /\ ~info.usedOfflineCache
              /\ info.sourceUrl = LOCAL_PM_TILES_PATH
              /\ info.tileUrl = TileUrl(LOCAL_PM_TILES_PATH)
         ELSE /\ r.probe \in {"not ok", "throws"}
              /\ ~info.usedLocal /\ ~info.usedOfflineCache
              /\ info.sourceUrl = REMOTE_PM_TILES_URL
              /\ info.tileUrl = TileUrl(REMOTE_PM_TILES_URL)

\* a blob recorded from the remote URL is bound next to a run whose probe
\* threw and that went on with the remote archive
C13_Witness ==
  \E j, k \in DOMAIN installs :
    /\ installs[j].pc = "metadata" /\ installs[j].blob # NoBlob
    /\ installs[j].src = REMOTE_PM_TILES_URL /\ ~installs[j].info.usedLocal
    /\ installs[k].pc = "metadata" /\ installs[k].probe = "throws"
    /\ installs[k].info.sourceUrl = REMOTE_PM_TILES_URL

\* ------------------------------------------------------------- rebinding
LayerIds(layers) == {l.id : l \in layers}

\* run k binds a descriptor resolved without a blob whose tile URL is the one
\* of the source already on the map; without a blob the tile URL determines
\* the whole descriptor, so the two descriptors are equal
SameSourceRebind(k) ==
  /\ ProbeDone(k)
  /\ mapLoaded # "constructed"
  /\ installs'[k].pc = "metadata"
  /\ installs'[k].info.tileUrl = mapSource.url

\* C14: rebinding with a descriptor whose source identity equals the bound
\* one is a no-op on sources and layers: the vector source is not removed or
\* re-added, and the set of layer ids before equals the set after.
C14_SameIdentityNoOp ==
  [][ \A k \in 1..MaxInstalls :
        SameSourceRebind(k) =>
          /\ mapSource' = mapSource
          /\ LayerIds(mapLayers') = LayerIds(mapLayers) ]_vars

\* C20: map rebinding is serialized: a triggered rebind begins only when the
\* previous installBasemap run has completed or failed, so no two runs are in
\* flight on the same map.
C20_RebindsSerialized ==
  [][ (MapLoad \/ OfflineSourceChanged) => installs = <<>> ]_vars

\* ---------------------------------------------------------------- markers
\* C15: once the map is up after a change to the waypoint collection, the
\* set of marker ids on the live map equals the set of waypoint ids.
C15_MarkersMatchWaypoints ==
  bootstrap.pc \in {"map", "installing", "ready"} =>
    MarkerIds(markersRef) = IdsOf(waypoints)

\* ------------------------------------------------------- store round trip
\* C16: reading after savePMTilesBlob(blob, url) returns that blob with
\* sourceUrl = url; a bare blob left by the earlier version is read as a
\* record with that blob and no sourceUrl; after clearPMTilesBlob, or for a
\* value that is neither a blob nor a record holding one, the read returns
\* nothing; and what a reader takes over is what readPMTilesBlob returns.
C16_StoreRoundTrip ==
  [][ /\ \A blob \in StoreBlobs, sourceUrl \in Urls \cup {Null} :
           SaveRecord(blob, sourceUrl) =>
             /\ readPMTilesBlob(store').kind = "record"
             /\ readPMTilesBlob(store').blob = blob
             /\ readPMTilesBlob(store').sourceUrl = sourceUrl
      /\ \A blob \in StoreBlobs :
           LegacySave(blob) =>
             /\ readPMTilesBlob(store').kind = "record"
             /\ readPMTilesBlob(store').blob = blob
             /\ readPMTilesBlob(store').sourceUrl = Null
      /\ (ClearRecord \/ ForeignWrite) => readPMTilesBlob(store') = NoValue
      /\ ReadRecord =>
           /\ store.kind \in {"record", "bare"} /\ store.blob # NoBlob
                => /\ offlineBlob' = store.blob
                   /\ cachedSourceUrl' = store.sourceUrl
           /\ (store.kind \in {"none", "junk"} \/ store.blob = NoBlob)
                => /\ offlineBlob' = NoBlob
                   /\ cachedSourceUrl' = Null ]_vars

\* a bare blob of the earlier version has been read back, without provenance
C16_Witness ==
  /\ store = BareBlob(Content(REMOTE_PM_TILES_URL, 2))
  /\ offlineBlob = Content(REMOTE_PM_TILES_URL, 2)
  /\ cachedSourceUrl = Null

\* ------------------------------------------------------ failures, teardown
\* C17: every failure of a network or storage operation of the cache manager
\* (fetch, stream read, persisting the blob, the start-up read, the delete on
\* clear) is caught and shows in the status as phase Error with a message.
C17_FailuresCaught ==
  [][ (\/ \E i \in Attempts : FetchReject(i) \/ ReadError(i)
       \/ SaveFail
       \/ StartupReadFail
       \/ ClearFail) /\ mounted
        => (status'.phase = "error" /\ status'.error # NoError) ]_vars

\* C18: once a newly started attempt has set phase Downloading, no status
\* update of the attempt it cancelled is applied afterwards.
C18_NoStaleUpdate ==
  [][ (AbortCatch /\ micro.by = "start" /\ status.phase = "downloading")
        => status' = status ]_vars

\* C19: tearing the owner down while a download is in flight cancels the
\* request; after teardown no status update is applied and no record is
\* persisted.
C19_TeardownCancels ==
  [][ /\ Unmount => InFlightSet' = {}
      /\ ~mounted => (status' = status /\ store' = store) ]_vars

\* ------------------------------------------------------ cancellation token
\* C25: whenever a download attempt is in flight, the stored cancellation
\* token (controllerRef) is the token of that attempt.
C25_TokenIsCurrent == \A i \in InFlightSet : controllerRef = i

\* ------------------------------------------------------------- completion
\* C26: when a download completes with the toggle enabled, the phase is Ready
\* and the completion itself starts no further download attempt.
C26_CompletionSettles ==
  [][ (SaveDone /\ enabled)
        => (status'.phase = "ready" /\ ~AttemptStarts) ]_vars

\* -------------------------------------------------- what the manager holds
\* no invocation of startCaching is running and no store request is pending
AtRest == Quiescent /\ Running(att) = 0 /\ storeQueue = <<>>

\* C28: whenever no download attempt is in flight, cachedSourceUrl is the
\* sourceUrl of the persisted record, and null when there is no record.
C28_ProvenanceMatchesStore ==
  (mounted /\ AtRest) => cachedSourceUrl = readPMTilesBlob(store).sourceUrl

\* C30: whenever no cache operation is in flight, hasCache is true exactly
\* when a record exists in the store, and offlineBlob is that record's blob.
C30_CacheFlagMatchesStore ==
  (mounted /\ AtRest)
    => /\ hasCache <=> RecordExists
       /\ offlineBlob = readPMTilesBlob(store).blob

\* ------------------------------------------------------- protocol handler
\* C21: whenever a vector source is on the map, the pmtiles protocol is
\* registered with the map library and an archive is registered with the
\* protocol under the key the source's tile URL names: the registration
\* precedes the source.
C21_RegisteredBeforeSource ==
  mapSource.url # <<>>
    => /\ protocol.registered
       /\ \E t \in protocol.tiles : TileUrl(t.key) = mapSource.url

\* the cached blob is bound and served under the file name
C21_Witness ==
  /\ mapSource.url = TileUrl(OFFLINE_FILE_NAME)
  /\ protocol.registered
  /\ [key |-> OFFLINE_FILE_NAME, pmtiles |-> PMTiles(PriorBlob, Null)]
       \in protocol.tiles

\* ------------------------------------------------------------ role layers
\* the positions in a metadata list whose lower-cased name contains a keyword
\* of role d
Hits(available, d) ==
  {j \in DOMAIN available :
     \E needle \in d.matches : Includes(available[j], needle)}

LayersOf(layers, d) == {l \in layers : l.id = d.id}

Generated(available) ==
  {[id |-> LAYERS[r].id,
    sourceLayer |->
      available[CHOOSE j \in Hits(available, LAYERS[r]) :
                  \A i \in Hits(available, LAYERS[r]) : j <= i],
    visible |-> TRUE] :
     r \in {q \in DOMAIN LAYERS : Hits(available, LAYERS[q]) # {}}}

Tracked(layers) ==
  {[key |-> LAYERS[r].key, id |-> LAYERS[r].id] :
     r \in {q \in DOMAIN LAYERS : \E l \in layers : l.id = LAYERS[q].id}}

\* C22: when a rebind completes, the basemap layers on the map are exactly
\* the layers generated for the roles matched in the metadata of the archive
\* it bound (the layers of the previous bind are gone), and the tracked
\* role-to-layer-id map is that set.
C22_OnlyNewLayers ==
  [][ \A k \in 1..MaxInstalls :
        MetadataDone(k) =>
          LET new == Generated(vector_layers(PMTilesOf(installs[k])))
          IN /\ mapLayers' = new
             /\ layerIdsRef' = Tracked(new) ]_vars

\* the archive the protocol serves for the source on the map
BoundArchive(src, p) ==
  (CHOOSE t \in p.tiles : TileUrl(t.key) = src.url).pmtiles

\* C29: when overlapping installs have all finished, the style layers on the
\* map were derived from the metadata of the archive whose source is bound;
\* and a run does not replace the source bound by a run triggered after it.
C29_OverlapConsistent ==
  [][ /\ (installs # <<>> /\ installs' = <<>>
            /\ mapSource'.url # <<>> /\ mapLayers' # {})
        => mapLayers' =
             Generated(vector_layers(BoundArchive(mapSource', protocol')))
      /\ \A k \in 1..MaxInstalls :
           (/\ ProbeDone(k)
            /\ \E j \in DOMAIN installs : j > k /\ installs[j].pc = "metadata")
             => mapSource' = mapSource ]_vars

\* C24: the layers a rebind adds carry the current toggle of their role: a
\* role switched off before the rebind is hidden after it.
C24_TogglesReapplied ==
  [][ \A k \in 1..MaxInstalls :
        MetadataDone(k) =>
          \A r \in DOMAIN LAYERS :
            Hits(vector_layers(PMTilesOf(installs[k])), LAYERS[r]) # {}
              => \A l \in LayersOf(mapLayers', LAYERS[r]) :
                   l.visible = Visible(visibleLayers, LAYERS[r].key) ]_vars

\* C27: with the cached blob and its provenance unchanged, the completion of
\* an install on the live map, which reports the resolved descriptor to the
\* app, leaves the map instance in place and starts no other install.
C27_InstallsQuiesce ==
  [][ \A k \in 1..MaxInstalls :
        (InstallReported(k) \/ InstallFailedReported(k))
          => /\ mapRef' = mapRef
             /\ Len(installs') < Len(installs) ]_vars

====
